---- MODULE Spec2Model ----
(***************************************************************************)
(* GameVaultClient (gamevault-lister-python.py): the catalog pager and the *)
(* download handler, as the single-threaded Qt event loop runs them.       *)
(*                                                                         *)
(* A handler runs to completion on the event-dispatch thread.  The places  *)
(* where it waits are positions of the model (the frames of `stack`): a    *)
(* blocking requests.get, and the modal QMessageBox of load_games_page's   *)
(* except branch, whose nested event loop runs while loading_page is still *)
(* True and can deliver the scroll bar's valueChanged signal (a pending    *)
(* layout or a resize clamps the value); input to the window is blocked    *)
(* there, so no button handler runs.  The other message boxes and file     *)
(* dialogs are shown with no flag held and are part of their handler's     *)
(* step.                                                                   *)
(***************************************************************************)
EXTENDS Integers, Sequences, FiniteSets, TLC

\* ------------------------------------------------------------- bounds
\* Number of non-empty pages of the largest catalog.
MaxPages == 2

\* ------------------------------------------------------------- values
\* Python's None (self.token, self.download_dir).
None == "None"
\* access_token values a login response can carry.
Tokens == {"t1"}
\* server_input.text().rstrip("/"): empty, or one of two servers.
ServerTexts == {"", "A", "B"}
\* Directories the file dialog can return.
Folders == {"d1"}
\* Scroll events: whether the scroll bar is visible, its value, its maximum.
ScrollEvents ==
  {<<FALSE, 0, 15>>, <<FALSE, 15, 15>>, <<TRUE, 0, 0>>, <<TRUE, 0, 15>>,
   <<TRUE, 4, 15>>, <<TRUE, 5, 15>>, <<TRUE, 15, 15>>}
\* Login attempts: the server field, whether user name and password are
\* filled in, and the login response (read only when a request is made).
Responses == {"http_error", "no_token"} \cup Tokens
LoginAttempts ==
  {<<text, FALSE, "http_error">> : text \in ServerTexts}
    \cup {<<"", TRUE, "http_error">>}
    \cup {<<text, TRUE, resp>> : text \in ServerTexts \ {""}, resp \in Responses}

\* The threshold of check_scroll_bottom.
NEAR_BOTTOM_THRESHOLD == 10

\* Chunks read from one download body.
MaxChunks == 2
\* Lengths of the chunks iter_content(chunk_size=8192) yields.
ChunkSizes == {29, 71}
\* Content-Length of a download response, 0 when the header is absent.
Totals == {0, 100}
\* Download responses: whether the status is a success, the Content-Length,
\* and whether the destination file can be opened.
DownloadResponses ==
  {<<FALSE, 0, TRUE>>} \cup {<<TRUE, t, TRUE>> : t \in Totals} \cup {<<TRUE, 100, FALSE>>}

\* The marker line 235 looks for, and the character line 236 strips.
MARKER == "filename="
QUOTE == "\""
\* Pieces a Content-Disposition value is made of; a value is a sequence of them.
HeaderPieces == {MARKER, QUOTE, "foo.zip"}
\* Pieces in one Content-Disposition value.
MaxHeaderLen == 4
HeaderValues == UNION {[1..n -> HeaderPieces] : n \in 0..MaxHeaderLen}
\* resp.headers without and with a Content-Disposition entry.
Absent == [present |-> FALSE, value |-> << >>]
Present(v) == [present |-> TRUE, value |-> v]
\* The value of the scenario: attachment; filename="foo.zip"
FooHeader == <<"attachment; ", MARKER, QUOTE, "foo.zip", QUOTE>>
\* Content-Disposition of the download responses of a session.
Dispositions == {Absent, Present(FooHeader)}
\* Those, and every Content-Disposition up to MaxHeaderLen pieces.
AllDispositions == Dispositions \cup {Present(v) : v \in HeaderValues}

\* Rows of the list that fit in its viewport; the vertical scroll bar is
\* shown (ScrollBarAsNeeded) only when the list has more rows than that.
ViewRows == 1

\* ------------------------------------------------------------- server
\* Catalog of a server: NumPages non-empty pages, then empty pages.
NumPages(s) == IF s = "A" THEN MaxPages ELSE IF s = "B" THEN 1 ELSE 0

\* A record of the "data" array of the list response.
Game(s, p, i) == [id |-> <<s, p, i>>, title |-> <<"title", s, p, i>>]

\* Records per page of a server's catalog.
PageLen(s) == IF s = "A" THEN 2 ELSE 1

\* resp.json().get("data", []) of GET {server}/api/games?page=p.
ServerPage(s, p) ==
  IF p \in 1..NumPages(s) THEN [i \in 1..PageLen(s) |-> Game(s, p, i)] ELSE << >>

\* The id of no record.
NoId == <<"", 0, 0>>

\* ------------------------------------------------------------- state
VARIABLES
  token,             \* self.token
  server,            \* self.server
  download_dir,      \* self.download_dir
  games,             \* self.games
  current_page,      \* self.current_page
  loading_page,      \* self.loading_page
  all_pages_loaded,  \* self.all_pages_loaded
  game_list,         \* self.game_list: entries [title, data]
  selected,          \* index of the selected entry of game_list, 0 = none
  download_enabled,  \* self.download_button.isEnabled()
  change_dl_enabled, \* self.change_dl_button.isEnabled()
  progress,          \* self.progress_bar.value()
  total_size,        \* download_selected_game's total_size
  downloaded_size,   \* download_selected_game's downloaded_size
  chunks,            \* chunks read by the running download
  file_size,         \* bytes of the destination file, -1 when it was never opened
  stack,             \* positions of the handlers that are waiting, innermost last
  op,                \* what the last step did
  sent,              \* the list or download request the last step issued
  reported,          \* the value the last step gave progress_bar.setValue, -1 if none
  reported_100,      \* the running or the last download call gave setValue the value 100
  disposition,       \* Content-Disposition of the response of the running download
  filename,          \* download_selected_game's filename, << >> when none is running
  clean,             \* since the last reset: no failed fetch, server unchanged
  retry_page         \* page of the list fetch that failed last, 0 once a fetch succeeds

vars == <<token, server, download_dir, games, current_page, loading_page,
          all_pages_loaded, game_list, selected, download_enabled,
          change_dl_enabled, progress, total_size, downloaded_size, chunks,
          file_size, stack, op, sent, reported, reported_100, disposition,
          filename, clean, retry_page>>

session == <<server, token>>
pager == <<games, current_page, loading_page, all_pages_loaded>>
listing == <<games, current_page, all_pages_loaded, game_list, selected>>
buttons == <<download_enabled, change_dl_enabled>>
download == <<progress, total_size, downloaded_size, chunks, file_size, reported>>

NoReq == [kind |-> "none", server |-> "", page |-> 0, token |-> None, id |-> NoId]
ListReq(p) == [kind |-> "list", server |-> server, page |-> p, token |-> token, id |-> NoId]
DownloadReq(game_id) ==
  [kind |-> "download", server |-> server, page |-> 0, token |-> token, id |-> game_id]

Frame(pc, p) == [pc |-> pc, page |-> p]
Idle == stack = << >>
Top == stack[Len(stack)]
Pop == SubSeq(stack, 1, Len(stack) - 1)
At(pc) == stack # << >> /\ Top.pc = pc

\* Python truthiness of self.token / self.download_dir.
Truthy(x) == x # None /\ x # ""

\* ------------------------------------------------------------- __init__
\* load_config: download_dir comes from the config file when there is one.
Init ==
  /\ token = None
  /\ server = ""
  /\ download_dir \in {None} \cup Folders
  /\ games = << >>
  /\ current_page = 1
  /\ loading_page = FALSE
  /\ all_pages_loaded = FALSE
  /\ game_list = << >>
  /\ selected = 0
  /\ download_enabled = FALSE
  /\ change_dl_enabled = FALSE
  /\ progress = 0
  /\ total_size = 0
  /\ downloaded_size = 0
  /\ chunks = 0
  /\ file_size = -1
  /\ stack = << >>
  /\ op = "init"
  /\ sent = NoReq
  /\ reported = -1
  /\ reported_100 = FALSE
  /\ disposition = Absent
  /\ filename = << >>
  /\ clean = FALSE
  /\ retry_page = 0

\* ------------------------------------------------------------- pager
\* Entry of the list view for a record: title, and the record as UserRole data.
ListItem(g) == [title |-> g.title, data |-> g]

\* The guard without its loading_page test.
LoadGuard_IgnoresLoading == all_pages_loaded \/ ~Truthy(token)

\* The guard without its all_pages_loaded test.
LoadGuard_IgnoresExhausted == loading_page \/ ~Truthy(token)

\* The guard of load_games_page: TRUE when the call returns at once.
LoadGuard == loading_page \/ all_pages_loaded \/ ~Truthy(token)

\* load_games_page(page) up to its blocking requests.get, called with the
\* frames `base` below it.
LoadGamesPage(page, base) ==
  IF LoadGuard
  THEN /\ op' = "load_guarded"
       /\ sent' = NoReq
       /\ stack' = base
       /\ UNCHANGED loading_page
  ELSE /\ op' = "load_started"
       /\ loading_page' = TRUE
       /\ sent' = ListReq(page)
       /\ stack' = Append(base, Frame("fetching", page))

\* The reset without line 170.
ResetPager_KeepsPage ==
  /\ games' = << >>
  /\ all_pages_loaded' = FALSE
  /\ game_list' = << >>
  /\ selected' = 0
  /\ download_enabled' = IF selected # 0 THEN FALSE ELSE download_enabled
  /\ UNCHANGED <<current_page, loading_page>>

ResetPager_KeepsList ==
  /\ games' = << >>
  /\ current_page' = 1
  /\ all_pages_loaded' = FALSE
  /\ UNCHANGED <<game_list, selected, download_enabled, loading_page>>

\* reset_and_load_games, lines 169-172.  QListWidget.clear() clears the
\* selection first; when an entry was selected that emits
\* itemSelectionChanged, and game_selected disables the download button.
ResetPager ==
  /\ games' = << >>
  /\ current_page' = 1
  /\ all_pages_loaded' = FALSE
  /\ game_list' = << >>
  /\ selected' = 0
  /\ download_enabled' = IF selected # 0 THEN FALSE ELSE download_enabled
  /\ UNCHANGED loading_page

\* reset_and_load_games, line 173: the call load_games_page(self.current_page).
ResetCallsLoad ==
  /\ At("call_load")
  /\ LoadGamesPage(Top.page, Pop)
  /\ reported' = -1
  /\ UNCHANGED <<reported_100, disposition, filename>>
  /\ UNCHANGED <<session, download_dir, listing, buttons, progress, total_size,
                 downloaded_size, chunks, file_size, clean, retry_page>>

CheckScrollBottom_StrictThreshold(visible, value, maximum) ==
  /\ Idle \/ At("load_error")
  /\ IF ~visible
     THEN /\ op' = "scroll_ignored" /\ sent' = NoReq
          /\ UNCHANGED <<loading_page, stack>>
     ELSE IF value > maximum - NEAR_BOTTOM_THRESHOLD
          THEN LoadGamesPage(current_page, stack)
          ELSE /\ op' = "scroll_far" /\ sent' = NoReq
               /\ UNCHANGED <<loading_page, stack>>
  /\ reported' = -1
  /\ UNCHANGED <<reported_100, disposition, filename>>
  /\ UNCHANGED <<session, download_dir, listing, buttons, progress, total_size,
                 downloaded_size, chunks, file_size, clean, retry_page>>

\* check_scroll_bottom, lines 203-208: the scroll bar's valueChanged(value) signal.
CheckScrollBottom(visible, value, maximum) ==
  /\ Idle \/ At("load_error")
  /\ IF ~visible
     THEN /\ op' = "scroll_ignored" /\ sent' = NoReq
          /\ UNCHANGED <<loading_page, stack>>
     ELSE IF value >= maximum - NEAR_BOTTOM_THRESHOLD
          THEN LoadGamesPage(current_page, stack)
          ELSE /\ op' = "scroll_far" /\ sent' = NoReq
               /\ UNCHANGED <<loading_page, stack>>
  /\ reported' = -1
  /\ UNCHANGED <<reported_100, disposition, filename>>
  /\ UNCHANGED <<session, download_dir, listing, buttons, progress, total_size,
                 downloaded_size, chunks, file_size, clean, retry_page>>

\* The non-empty page put in front of the records already listed.
PageLoaded_SkipsListItems(new_games) ==
  /\ games' = games \o new_games
  /\ current_page' = current_page + 1
  /\ loading_page' = FALSE
  /\ stack' = Pop
  /\ op' = "page_loaded"
  /\ retry_page' = 0
  /\ UNCHANGED <<game_list, all_pages_loaded, clean>>

PageLoaded_Prepends(new_games) ==
  /\ games' = new_games \o games
  /\ game_list' = [i \in 1..Len(new_games) |-> ListItem(new_games[i])] \o game_list
  /\ current_page' = current_page + 1
  /\ loading_page' = FALSE
  /\ stack' = Pop
  /\ op' = "page_loaded"
  /\ retry_page' = 0
  /\ UNCHANGED <<all_pages_loaded, clean>>

\* The non-empty page appended without line 196.
PageLoaded_KeepsPage(new_games) ==
  /\ games' = games \o new_games
  /\ game_list' = game_list \o [i \in 1..Len(new_games) |-> ListItem(new_games[i])]
  /\ loading_page' = FALSE
  /\ stack' = Pop
  /\ op' = "page_loaded"
  /\ retry_page' = 0
  /\ UNCHANGED <<current_page, all_pages_loaded, clean>>

\* The list response is a non-empty page: lines 189-196, then finally.
PageLoaded(new_games) ==
  /\ games' = games \o new_games
  /\ game_list' = game_list \o [i \in 1..Len(new_games) |-> ListItem(new_games[i])]
  /\ current_page' = current_page + 1
  /\ loading_page' = FALSE
  /\ stack' = Pop
  /\ op' = "page_loaded"
  /\ retry_page' = 0
  /\ UNCHANGED <<all_pages_loaded, clean>>

\* The empty page handled with the page counter advanced as well.
PageEmpty_AdvancesPage ==
  /\ all_pages_loaded' = TRUE
  /\ current_page' = current_page + 1
  /\ loading_page' = FALSE
  /\ stack' = Pop
  /\ op' = "page_empty"
  /\ retry_page' = 0
  /\ UNCHANGED <<games, game_list, clean>>

\* The list response is an empty page: lines 185-187, then finally.
PageEmpty ==
  /\ all_pages_loaded' = TRUE
  /\ loading_page' = FALSE
  /\ stack' = Pop
  /\ op' = "page_empty"
  /\ retry_page' = 0
  /\ UNCHANGED <<games, game_list, current_page, clean>>

\* The failed fetch handled with the page counter advanced.
PageFailed_AdvancesPage ==
  /\ stack' = Append(Pop, Frame("load_error", Top.page))
  /\ op' = "page_failed"
  /\ clean' = FALSE
  /\ retry_page' = Top.page
  /\ current_page' = current_page + 1
  /\ UNCHANGED <<games, game_list, all_pages_loaded, loading_page>>

\* requests.get or raise_for_status raised: the except branch shows its dialog.
PageFailed ==
  /\ stack' = Append(Pop, Frame("load_error", Top.page))
  /\ op' = "page_failed"
  /\ clean' = FALSE
  /\ retry_page' = Top.page
  /\ UNCHANGED <<games, game_list, current_page, all_pages_loaded, loading_page>>

\* requests.get of load_games_page returns or raises; a request to the empty
\* server text has no URL scheme and raises.
ListResponse(ok) ==
  /\ At("fetching")
  /\ IF ok /\ server # ""
     THEN LET new_games == ServerPage(server, Top.page)
          IN IF new_games = << >> THEN PageEmpty ELSE PageLoaded(new_games)
     ELSE PageFailed
  /\ sent' = NoReq
  /\ reported' = -1
  /\ UNCHANGED <<reported_100, disposition, filename>>
  /\ UNCHANGED <<session, download_dir, selected, buttons, progress, total_size,
                 downloaded_size, chunks, file_size>>

\* The error dialog closed with no finally clause.
LoadErrorClosed_KeepsFlag ==
  /\ At("load_error")
  /\ stack' = Pop
  /\ op' = "load_end"
  /\ sent' = NoReq
  /\ reported' = -1
  /\ UNCHANGED <<reported_100, disposition, filename>>
  /\ UNCHANGED <<session, download_dir, listing, loading_page, buttons, progress,
                 total_size, downloaded_size, chunks, file_size, clean, retry_page>>

\* The error dialog of load_games_page is closed: the finally clause.
LoadErrorClosed ==
  /\ At("load_error")
  /\ loading_page' = FALSE
  /\ stack' = Pop
  /\ op' = "load_end"
  /\ sent' = NoReq
  /\ reported' = -1
  /\ UNCHANGED <<reported_100, disposition, filename>>
  /\ UNCHANGED <<session, download_dir, listing, buttons, progress, total_size,
                 downloaded_size, chunks, file_size, clean, retry_page>>

\* ------------------------------------------------------------- login
\* authenticate, lines 135-144, with prompt_for_download_folder: `folder` is
\* what the file dialog returns, "" when it is cancelled.
AuthSucceeded(folder) ==
  IF Truthy(download_dir) \/ folder # ""
  THEN /\ download_dir' = IF Truthy(download_dir) THEN download_dir ELSE folder
       /\ change_dl_enabled' = TRUE
       /\ ResetPager
       /\ stack' = <<Frame("call_load", current_page')>>
       /\ op' = "reset"
       /\ clean' = TRUE
       /\ retry_page' = 0
  ELSE /\ op' = "auth_no_folder"
       /\ clean' = (clean /\ server' = server)
       /\ UNCHANGED <<download_dir, listing, loading_page, buttons, stack, retry_page>>

\* The Authenticate button: `text` is the server field, `filled` whether the
\* user name and password are non-empty, `resp` the login response.
Authenticate(text, filled, resp) ==
  /\ Idle
  /\ server' = text
  /\ IF text = "" \/ ~filled
     THEN /\ op' = "auth_rejected"
          /\ clean' = (clean /\ server' = server)
          /\ UNCHANGED <<token, download_dir, listing, loading_page, buttons, stack,
                         retry_page>>
     ELSE IF resp = "http_error"
     THEN /\ op' = "auth_failed"
          /\ clean' = (clean /\ server' = server)
          /\ UNCHANGED <<token, download_dir, listing, loading_page, buttons, stack,
                         retry_page>>
     ELSE IF resp = "no_token"
     THEN /\ token' = None
          /\ op' = "auth_failed"
          /\ clean' = (clean /\ server' = server)
          /\ UNCHANGED <<download_dir, listing, loading_page, buttons, stack, retry_page>>
     ELSE /\ token' = resp
          /\ \E folder \in Folders \cup {""} : AuthSucceeded(folder)
  /\ sent' = NoReq
  /\ reported' = -1
  /\ UNCHANGED <<reported_100, disposition, filename>>
  /\ UNCHANGED <<progress, total_size, downloaded_size, chunks, file_size>>

\* The Change Download Folder button.
ChangeDownloadFolder(folder) ==
  /\ Idle /\ change_dl_enabled
  /\ IF folder # ""
     THEN download_dir' = folder /\ op' = "folder_changed"
     ELSE UNCHANGED download_dir /\ op' = "folder_kept"
  /\ sent' = NoReq
  /\ reported' = -1
  /\ UNCHANGED <<reported_100, disposition, filename>>
  /\ UNCHANGED <<session, listing, loading_page, buttons, progress, total_size,
                 downloaded_size, chunks, file_size, stack, clean, retry_page>>

\* The user changes the selection of the list: game_selected.
GameSelected(i) ==
  /\ Idle
  /\ i \in 0..Len(game_list) /\ i # selected
  /\ selected' = i
  /\ download_enabled' = (i # 0)
  /\ op' = "selected"
  /\ sent' = NoReq
  /\ reported' = -1
  /\ UNCHANGED <<reported_100, disposition, filename>>
  /\ UNCHANGED <<session, download_dir, games, current_page, all_pages_loaded,
                 game_list, loading_page, change_dl_enabled, progress, total_size,
                 downloaded_size, chunks, file_size, stack, clean, retry_page>>

\* ------------------------------------------------------------- download
\* Pairs (downloaded, total) of the model where the float product
\* (downloaded_size / total_size) * 100 falls just below the exact quotient.
FloatShort == {<<29, 100>>, <<58, 100>>, <<116, 100>>}

\* int((downloaded_size / total_size) * 100) in IEEE double arithmetic.
Percent(d, t) == (d * 100) \div t - (IF <<d, t>> \in FloatShort THEN 1 ELSE 0)

\* QProgressBar.setValue: a value outside 0..100 leaves the bar as it is.
SetValue(v) == IF v \in 0..100 THEN v ELSE progress

\* f"game_{game_id}.bin"
DefaultName(game_id) == <<"game_", ToString(game_id), ".bin">>

\* "filename=" in filename
HasMarker(s) == \E i \in 1..Len(s) : s[i] = MARKER

\* filename.split("filename="): the pieces between the markers.
RECURSIVE Split(_)
Split(s) ==
  IF s = << >> THEN << << >> >>
  ELSE LET rest == Split(Tail(s))
       IN  IF Head(s) = MARKER
           THEN << << >> >> \o rest
           ELSE << <<Head(s)>> \o Head(rest) >> \o Tail(rest)

\* str.strip('"'): every leading and every trailing quote is removed.
RECURSIVE LStrip(_)
LStrip(s) == IF s # << >> /\ Head(s) = QUOTE THEN LStrip(Tail(s)) ELSE s

RECURSIVE RStrip(_)
RStrip(s) ==
  IF s # << >> /\ s[Len(s)] = QUOTE THEN RStrip(SubSeq(s, 1, Len(s) - 1)) ELSE s

Strip(s) == RStrip(LStrip(s))

Filename_NoStrip(cd, game_id) ==
  LET name == IF cd.present THEN cd.value ELSE DefaultName(game_id)
  IN  IF HasMarker(name) THEN Split(name)[Len(Split(name))] ELSE DefaultName(game_id)

\* Lines 234-238.
Filename(cd, game_id) ==
  LET name == IF cd.present THEN cd.value ELSE DefaultName(game_id)
  IN  IF HasMarker(name)
      THEN Strip(Split(name)[Len(Split(name))])
      ELSE DefaultName(game_id)

\* The Download button, up to the blocking requests.get.
DownloadSelectedGame ==
  /\ Idle /\ download_enabled
  /\ IF ~Truthy(download_dir)
     THEN op' = "download_no_dir" /\ sent' = NoReq /\ UNCHANGED stack
     ELSE IF selected = 0
     THEN op' = "download_no_selection" /\ sent' = NoReq /\ UNCHANGED stack
     ELSE /\ op' = "download_started"
          /\ sent' = DownloadReq(game_list[selected].data.id)
          /\ stack' = <<Frame("downloading", 0)>>
  /\ reported' = -1
  /\ reported_100' = IF op' = "download_started" THEN FALSE ELSE reported_100
  /\ UNCHANGED <<disposition, filename>>
  /\ UNCHANGED <<session, download_dir, listing, loading_page, buttons, progress,
                 total_size, downloaded_size, chunks, file_size, clean, retry_page>>

\* The download response arrives: a failure raises, a success opens the file.
DownloadResponse(ok, total, opened, cd) ==
  /\ At("downloading")
  /\ IF ok /\ server # "" /\ opened
     THEN /\ disposition' = cd
          /\ filename' = Filename(cd, sent.id)
          /\ total_size' = total
          /\ downloaded_size' = 0
          /\ chunks' = 0
          /\ file_size' = 0
          /\ stack' = <<Frame("streaming", 0)>>
          /\ op' = "download_opened"
     ELSE /\ stack' = Pop
          /\ op' = "download_failed"
          /\ UNCHANGED <<disposition, filename, total_size, downloaded_size, chunks,
                         file_size>>
  /\ sent' = NoReq
  /\ reported' = -1
  /\ UNCHANGED <<session, download_dir, listing, loading_page, buttons, progress,
                 reported_100, clean, retry_page>>

\* One chunk of the body is read and written: lines 246-252.
DownloadChunk(n) ==
  /\ At("streaming") /\ chunks < MaxChunks
  /\ file_size' = file_size + n
  /\ downloaded_size' = downloaded_size + n
  /\ chunks' = chunks + 1
  /\ IF total_size > 0
     THEN /\ reported' = Percent(downloaded_size', total_size)
          /\ progress' = SetValue(reported')
     ELSE reported' = -1 /\ UNCHANGED progress
  /\ reported_100' = (reported_100 \/ reported' = 100)
  /\ UNCHANGED <<disposition, filename>>
  /\ op' = "download_chunk"
  /\ sent' = NoReq
  /\ UNCHANGED <<session, download_dir, listing, loading_page, buttons, total_size,
                 stack, clean, retry_page>>

\* iter_content or f.write raises: the except branch, the file stays as it is.
DownloadAborted ==
  /\ At("streaming")
  /\ total_size' = 0 /\ downloaded_size' = 0 /\ chunks' = 0
  /\ disposition' = Absent /\ filename' = << >>
  /\ stack' = Pop
  /\ op' = "download_aborted"
  /\ sent' = NoReq
  /\ reported' = -1
  /\ UNCHANGED <<session, download_dir, listing, loading_page, buttons, progress,
                 file_size, reported_100, clean, retry_page>>

DownloadCompleted_NoReport ==
  /\ At("streaming")
  /\ reported' = -1
  /\ UNCHANGED <<progress, reported_100>>
  /\ total_size' = 0 /\ downloaded_size' = 0 /\ chunks' = 0
  /\ disposition' = Absent /\ filename' = << >>
  /\ stack' = Pop
  /\ op' = "download_done"
  /\ sent' = NoReq
  /\ UNCHANGED <<session, download_dir, listing, loading_page, buttons, file_size, clean,
                 retry_page>>

DownloadCompleted_ResetsPage ==
  /\ At("streaming")
  /\ reported' = 100
  /\ reported_100' = TRUE
  /\ progress' = SetValue(100)
  /\ total_size' = 0 /\ downloaded_size' = 0 /\ chunks' = 0
  /\ disposition' = Absent /\ filename' = << >>
  /\ stack' = Pop
  /\ op' = "download_done"
  /\ sent' = NoReq
  /\ current_page' = 1
  /\ UNCHANGED <<session, download_dir, games, all_pages_loaded, game_list, selected,
                 loading_page, buttons, file_size, clean, retry_page>>

\* The body ends: line 254.
DownloadCompleted ==
  /\ At("streaming")
  /\ reported' = 100
  /\ reported_100' = TRUE
  /\ progress' = SetValue(100)
  /\ total_size' = 0 /\ downloaded_size' = 0 /\ chunks' = 0
  /\ disposition' = Absent /\ filename' = << >>
  /\ stack' = Pop
  /\ op' = "download_done"
  /\ sent' = NoReq
  /\ UNCHANGED <<session, download_dir, listing, loading_page, buttons, file_size, clean,
                 retry_page>>

\* ------------------------------------------------------------- properties
\* List requests that have been issued and not answered.
Outstanding == Cardinality({i \in 1..Len(stack) : stack[i].pc = "fetching"})

\* A step that is a call of load_games_page.
LoadCalled == op' \in {"load_guarded", "load_started"}

\* C1: at most one list request is outstanding, and a call of load_games_page
\* made while loading_page is true issues no request and leaves games,
\* current_page, loading_page and all_pages_loaded as they were.
C1_NoOverlappingFetch ==
  [][/\ Outstanding' <= 1
     /\ (loading_page /\ LoadCalled) => (sent' = NoReq /\ pager' = pager)]_vars

\* C1 witness: a scroll signal called load_games_page while the flag was set.
C1_Witness == op = "load_guarded" /\ loading_page /\ At("load_error")

\* C2: once all_pages_loaded is true, every step but the reset keeps it true
\* and issues no list request.
C2_StickyExhaustion ==
  [][all_pages_loaded =>
       /\ all_pages_loaded' \/ op' = "reset"
       /\ op' # "reset" => sent'.kind # "list"
       /\ LoadCalled => sent' = NoReq]_vars

\* C2 witness: load_games_page was called on an exhausted pager.
C2_Witness == all_pages_loaded /\ op = "load_guarded" /\ Truthy(token) /\ ~loading_page

\* C3: every list or download request carries a token.
C3_TokenOnEveryCall == sent.kind \in {"list", "download"} => Truthy(sent.token)

\* C4: in every step current_page stays, is set to 1 by the reset, or grows by
\* one; it grows only in the step that appends a fetched non-empty page.
C4_PageSteps ==
  [][\/ current_page' = current_page
     \/ op' = "reset" /\ current_page' = 1
     \/ /\ current_page' = current_page + 1
        /\ op' = "page_loaded"
        /\ Len(games') > Len(games)
        /\ games' = games \o ServerPage(server, current_page)]_vars

\* C4 witness: the second page of a catalog was appended and current_page
\* went from 2 to 3.
C4_Witness == op = "page_loaded" /\ current_page = 3 /\ Len(games) = 4

\* C5: a failed list fetch leaves all_pages_loaded false and current_page
\* as it was, and the next list request asks for the page that failed.
C5_FailedFetchRetries ==
  [][/\ op' = "page_failed" =>
          /\ ~all_pages_loaded' /\ all_pages_loaded' = all_pages_loaded
          /\ current_page' = current_page
          /\ retry_page' = current_page'
     /\ (sent'.kind = "list" /\ retry_page # 0) => sent'.page = retry_page]_vars

\* C5 witness: a list request for a page whose fetch had failed.
C5_Witness == op = "load_started" /\ sent.page = retry_page /\ retry_page = 2

\* Frames of load_games_page calls that have started a fetch.
LoadFrames == Cardinality({i \in 1..Len(stack) : stack[i].pc \in {"fetching", "load_error"}})

\* C6: when a load_games_page call that started a fetch returns, loading_page
\* is false; loading_page is true exactly while one such call is running.
C6_FlagCleared ==
  [][/\ op' \in {"page_loaded", "page_empty", "load_end"} => ~loading_page'
     /\ loading_page' <=> LoadFrames' = 1]_vars

\* C6 witness: the call returned after a failed fetch.
C6_Witness == op = "load_end" /\ ~loading_page /\ retry_page # 0

\* C7: after the reset games is empty, current_page is 1, and
\* all_pages_loaded and loading_page are false.
C7_ResetState ==
  op = "reset" =>
    /\ games = << >> /\ game_list = << >>
    /\ current_page = 1
    /\ ~all_pages_loaded
    /\ ~loading_page

\* C7 witness: a reset after an earlier listing, one of whose entries had
\* been downloaded.
C7_Witness == op = "reset" /\ file_size > 0

RECURSIVE CatalogUpTo(_, _)
\* Pages 1..n of the catalog of server s, in server order.
CatalogUpTo(s, n) == IF n = 0 THEN << >> ELSE CatalogUpTo(s, n - 1) \o ServerPage(s, n)

\* C8: with no failed fetch since the reset, the exhausted pager holds the
\* pages 1..N of the catalog in order and current_page is N + 1.
C8_FullCatalog ==
  (clean /\ all_pages_loaded) =>
    /\ games = CatalogUpTo(server, NumPages(server))
    /\ current_page = NumPages(server) + 1

\* C8 witness: the largest catalog was listed to its end.
C8_Witness ==
  /\ clean /\ all_pages_loaded /\ server = "A"
  /\ Len(games) = NumPages("A") * PageLen("A")

\* Page index of a listed record.
PageIndex(g) == g.id[2]

\* The records of games are those of pages 1..current_page-1, page by page.
PagesOnce ==
  /\ \A i \in 1..(Len(games) - 1) : PageIndex(games[i]) <= PageIndex(games[i + 1])
  /\ {PageIndex(games[i]) : i \in 1..Len(games)} = 1..(current_page - 1)
  /\ \A p \in 1..(current_page - 1) :
       \E s \in ServerTexts :
         SelectSeq(games, LAMBDA g : PageIndex(g) = p) = ServerPage(s, p)

C10_FailuresKeepState ==
  [][/\ op' = "auth_failed" => session' = session
     /\ op' = "page_failed" => (games' = games /\ game_list' = game_list)]_vars

\* C11: when the stream fails after the file was opened, the except branch
\* reports the error, the bytes written so far stay in the file, and no step
\* of that download call gave the progress bar the value 100.
C11_PartialFileNoHundred ==
  [][op' = "download_aborted" => file_size' = file_size /\ ~reported_100']_vars

\* C12: in a download whose response declares a length above 0, the value
\* given to the progress bar after a chunk is floor(downloaded * 100 / total),
\* the values of one call never decrease and lie in 0..100, and the value
\* given at completion is 100.
C12_ProgressFloor ==
  [][/\ (op' = "download_chunk" /\ total_size > 0) =>
          /\ reported' = (downloaded_size' * 100) \div total_size
          /\ reported' \in 0..100
          /\ reported' >= reported
     /\ (op' = "download_done" /\ total_size > 0) =>
          reported' = 100 /\ reported' >= reported]_vars

\* C13: in a download whose response declares no length, a chunk gives the
\* progress bar no value and leaves it as it is; every download that reaches
\* the end of the body gives it 100, whatever length was declared.
C13_NoLengthProgress ==
  [][/\ (op' = "download_chunk" /\ total_size = 0) =>
          reported' = -1 /\ progress' = progress
     /\ op' = "download_done" => reported' = 100 /\ progress' = 100]_vars

\* C13 witness: the last chunk of a download without a declared length was
\* written and the bar, untouched, is still where the session started it.
C13_Witness ==
  /\ op = "download_chunk" /\ total_size = 0 /\ chunks = MaxChunks
  /\ reported = -1 /\ progress = 0

\* Index of the last marker of a header value that has one.
LastMarker(h) == CHOOSE k \in 1..Len(h) : h[k] = MARKER /\ \A j \in (k + 1)..Len(h) : h[j] # MARKER

\* name is text with the quotes at its two ends removed, and only those.
IsStripped(name, text) ==
  \E a, b \in 0..Len(text) :
    /\ a + b <= Len(text)
    /\ name = SubSeq(text, a + 1, Len(text) - b)
    /\ \A j \in 1..a : text[j] = QUOTE
    /\ \A j \in (Len(text) - b + 1)..Len(text) : text[j] = QUOTE
    /\ name # << >> => name[1] # QUOTE /\ name[Len(name)] # QUOTE

\* C14: when the Content-Disposition of the response contains the marker
\* filename=, the resolved name is the text after the (last) marker without
\* the double quotes around it, so attachment; filename="foo.zip" gives
\* foo.zip; when the header is absent or has no marker the name is
\* game_<id>.bin.
C14_FilenameResolution ==
  [][op' = "download_opened" =>
       LET h == disposition'.value
       IN  /\ IF disposition'.present /\ (\E k \in 1..Len(h) : h[k] = MARKER)
              THEN IsStripped(filename', SubSeq(h, LastMarker(h) + 1, Len(h)))
              ELSE filename' = <<"game_", ToString(sent.id), ".bin">>
           /\ disposition' = Present(FooHeader) => filename' = <<"foo.zip">>]_vars

\* C14 witness: the header of the scenario was resolved to foo.zip.
C14_Witness ==
  At("streaming") /\ disposition = Present(FooHeader) /\ filename = <<"foo.zip">>

\* C15: the scroll handler calls load_games_page, with current_page, exactly
\* when the scroll bar is visible and the position is at least the maximum
\* minus 10; otherwise it issues no request and changes nothing.
C15_ScrollTrigger ==
  [][\A e \in ScrollEvents :
       CheckScrollBottom(e[1], e[2], e[3]) =>
         IF e[1] /\ e[2] >= e[3] - 10
         THEN /\ LoadCalled
              /\ sent'.kind = "list" => sent'.page = current_page
         ELSE /\ ~LoadCalled
              /\ sent' = NoReq
              /\ UNCHANGED <<session, download_dir, listing, loading_page, buttons,
                             progress, file_size, stack>>]_vars

\* C15 witness: a scroll near the bottom requested the page of the cursor,
\* the second one.
C15_Witness == op = "load_started" /\ sent.page = current_page /\ current_page = 2

\* C16: a download request goes out only with a download folder set and an
\* entry selected, and the id it asks for is the id of a record of games;
\* a press of Download without a folder or without a selection sends no
\* request, opens no file and returns.
C16_DownloadPreconditions ==
  [][/\ sent'.kind = "download" =>
          /\ Truthy(download_dir)
          /\ selected # 0
          /\ \E i \in 1..Len(games) : games[i].id = sent'.id
     /\ (/\ op' \in {"download_no_dir", "download_no_selection", "download_started"}
         /\ ~Truthy(download_dir) \/ selected = 0) =>
          sent' = NoReq /\ file_size' = file_size /\ stack' = stack]_vars

\* C16 witness: the request of a download of a record of the second page.
C16_Witness ==
  /\ op = "download_started" /\ sent.kind = "download"
  /\ Len(games) > PageLen(server) /\ sent.id = games[PageLen(server) + 1].id

\* C17: with a valid session, a finite catalog, no failed fetch, and a scroll
\* event whenever the list can be scrolled, the pager eventually has
\* all_pages_loaded set with every page of the catalog in games.
C17_EventuallyExhausted ==
  <>(all_pages_loaded /\ games = CatalogUpTo(server, NumPages(server)))

DownloadOps ==
  {"download_no_dir", "download_no_selection", "download_started", "download_opened",
   "download_failed", "download_chunk", "download_aborted", "download_done"}

\* C19: no step of a download, whether it is rejected, fails or succeeds,
\* changes server, token, download_dir, games, current_page, loading_page or
\* all_pages_loaded.
C19_DownloadFrame ==
  [][op' \in DownloadOps =>
       UNCHANGED <<server, token, download_dir, games, current_page, loading_page,
                   all_pages_loaded>>]_vars

\* C19 witness: a download completed in a session that had loaded a page.
C19_Witness ==
  op = "download_done" /\ Truthy(token) /\ current_page = 2 /\ Len(games) > 0

\* ------------------------------------------------------------- system
Next ==
  \/ \E a \in LoginAttempts : Authenticate(a[1], a[2], a[3])
  \/ ResetCallsLoad
  \/ \E e \in ScrollEvents : CheckScrollBottom(e[1], e[2], e[3])
  \/ \E ok \in BOOLEAN : ListResponse(ok)
  \/ LoadErrorClosed
  \/ \E folder \in Folders \cup {""} : ChangeDownloadFolder(folder)
  \/ \E i \in 0..(MaxPages * PageLen("A")) : GameSelected(i)
  \/ DownloadSelectedGame
  \/ \E r \in DownloadResponses, cd \in Dispositions :
        DownloadResponse(r[1], r[2], r[3], cd)
  \/ \E n \in ChunkSizes : DownloadChunk(n)
  \/ DownloadAborted
  \/ DownloadCompleted

Spec == Init /\ [][Next]_vars

\* Downloads of the entries of the first page of server A, with every
\* Content-Disposition up to MaxHeaderLen pieces.  The first state is the one
\* in which the first request of the session's first download is out.
InitFilename ==
  /\ token = "t1"
  /\ server = "A"
  /\ download_dir = "d1"
  /\ games = ServerPage("A", 1)
  /\ current_page = 2
  /\ loading_page = FALSE
  /\ all_pages_loaded = FALSE
  /\ game_list = [i \in 1..PageLen("A") |-> ListItem(ServerPage("A", 1)[i])]
  /\ selected \in 1..PageLen("A")
  /\ download_enabled = TRUE
  /\ change_dl_enabled = TRUE
  /\ progress = 0
  /\ total_size = 0
  /\ downloaded_size = 0
  /\ chunks = 0
  /\ file_size = -1
  /\ stack = <<Frame("downloading", 0)>>
  /\ op = "download_started"
  /\ sent = DownloadReq(ServerPage("A", 1)[selected].id)
  /\ reported = -1
  /\ reported_100 = FALSE
  /\ disposition = Absent
  /\ filename = << >>
  /\ clean = TRUE
  /\ retry_page = 0

NextFilename ==
  \/ DownloadSelectedGame
  \/ \E r \in DownloadResponses, cd \in AllDispositions :
        DownloadResponse(r[1], r[2], r[3], cd)
  \/ \E n \in ChunkSizes : DownloadChunk(n)
  \/ DownloadAborted
  \/ DownloadCompleted

SpecFilename == InitFilename /\ [][NextFilename]_vars

\* The list view's scroll bar as Qt keeps it: visible when the rows do not
\* fit, its range the rows that are out of view.
ScrollVisible == Len(game_list) > ViewRows
ScrollMaximum == IF ScrollVisible THEN Len(game_list) - ViewRows ELSE 0

\* The user scrolls the list as far as it can be scrolled.
ScrollLive ==
  \E value \in 0..ScrollMaximum : CheckScrollBottom(ScrollVisible, value, ScrollMaximum)

\* A session right after a successful login, the call of load_games_page(1)
\* still to be made.
InitLive ==
  /\ token \in Tokens
  /\ server \in {"A", "B"}
  /\ download_dir \in Folders
  /\ games = << >>
  /\ current_page = 1
  /\ loading_page = FALSE
  /\ all_pages_loaded = FALSE
  /\ game_list = << >>
  /\ selected = 0
  /\ download_enabled = FALSE
  /\ change_dl_enabled = TRUE
  /\ progress = 0
  /\ total_size = 0
  /\ downloaded_size = 0
  /\ chunks = 0
  /\ file_size = -1
  /\ stack = <<Frame("call_load", 1)>>
  /\ op = "reset"
  /\ sent = NoReq
  /\ reported = -1
  /\ reported_100 = FALSE
  /\ disposition = Absent
  /\ filename = << >>
  /\ clean = TRUE
  /\ retry_page = 0

\* The steps that end a download once its request is out.
DownloadRuns ==
  \/ \E r \in DownloadResponses, cd \in Dispositions :
        DownloadResponse(r[1], r[2], r[3], cd)
  \/ \E n \in ChunkSizes : DownloadChunk(n)
  \/ DownloadAborted
  \/ DownloadCompleted

\* The session goes on without another login and without a failed fetch.
NextLive ==
  \/ ResetCallsLoad
  \/ ListResponse(TRUE)
  \/ ScrollLive
  \/ \E folder \in Folders \cup {""} : ChangeDownloadFolder(folder)
  \/ \E i \in 0..(MaxPages * PageLen("A")) : GameSelected(i)
  \/ DownloadSelectedGame
  \/ DownloadRuns

\* Every pending call and response is delivered, every download comes to
\* its end, and the user scrolls again and again while the list can be
\* scrolled.
SpecLive ==
  /\ InitLive
  /\ [][NextLive]_vars
  /\ WF_vars(ResetCallsLoad)
  /\ WF_vars(ListResponse(TRUE))
  /\ WF_vars(DownloadRuns)
  /\ SF_vars(ScrollLive)
====
